---- MODULE Spec2Model ----
(***************************************************************************)
(* Model of dashboard.py: a Streamlit script that polls a smart plug,      *)
(* integrates power into energy, tracks on-duration, logs a history table  *)
(* at most once a minute, checkpoints the accumulator, and supports a      *)
(* delayed auto-off.                                                       *)
(*                                                                         *)
(* One execution of the script (one "tick") is one atomic step.            *)
(* Units: time is in whole seconds.  Power is kept as the raw cur_power    *)
(* reading (tenths of a watt), so accumulated_kwh is kept in units of      *)
(* 0.1 W * 1 s; UnitsPerKWh of them make one kWh.  With these units        *)
(*   accumulated_kwh += (power / 1000.0) * delta_hours                     *)
(* is the exact integer update  accumulated_kwh += cur_power * (now-last). *)
(***************************************************************************)
EXTENDS Integers, Sequences, FiniteSets, TLC

VARIABLES
    clock,           \* time.time() / datetime.now(), seconds
    session_state,   \* st.session_state: a dict, DOMAIN = the keys present
    other_session,   \* st.session_state of a second browser tab, while the first one is served
    cache,           \* st.cache_data entry of get_device_status
    csv_file,        \* energy_history.csv
    backup_file,     \* session_backup.json
    rerun_pending,   \* st.rerun() was raised: the script runs again at once
    off_issued,      \* device.turn_off() calls made by the deadline check since the last schedule_auto_off
    overwritten,     \* the last schedule_auto_off replaced a commitment that was still armed
    clock_steps,     \* clock changes so far: time passed between runs, slept, or stepped back
    write_faults,    \* file writes that have raised so far
    last             \* what the last step did

vars == <<clock, session_state, other_session, cache, csv_file, backup_file, rerun_pending, off_issued, overwritten, clock_steps, write_faults, last>>

----------------------------------------------------------------------------
\* Bounds of the model.
MaxClockSteps == 2
MaxWriteFaults == 1
MaxHistory == 2

\* Seconds the environment lets pass between two script runs.
Deltas == {30, 60, 3600}
\* Seconds the wall clock may step back (clock skew).
SkewBack == {30}

----------------------------------------------------------------------------
\* Program constants.
unit_cost_bdt == 6
CacheTtl == 15
LogInterval == 60
FirstLogOffset == 61
ToggleSleep == 3
AutoOffHours == 1
SecondsPerHour == 3600
SecondsPerMinute == 60
UnitsPerKWh == 10 * 1000 * 3600

----------------------------------------------------------------------------
\* Python values.
None == <<>>
Some(x) == <<x>>
NoFile == <<>>
EmptyDict == <<>>

Put(d, k, v) ==
    IF k \in DOMAIN d
    THEN [d EXCEPT ![k] = v]
    ELSE [x \in (DOMAIN d) \cup {k} |-> IF x = k THEN v ELSE d[x]]
Get(d, k, default) == IF k \in DOMAIN d THEN d[k] ELSE default
SetDefault(d, k, v) == IF k \in DOMAIN d THEN d ELSE Put(d, k, v)

\* int(x / y) for y > 0: Python's int() truncates toward zero.
IntDiv(x, y) == IF x >= 0 THEN x \div y ELSE -((-x) \div y)

----------------------------------------------------------------------------
\* The history table on disk: one row per record, columns in DataFrame order.
ToRow(r) == <<r.Time, r.Current_mA, r.Voltage_V, r.Power_W, r.Energy_kWh, r.Cost_BDT, r.Duration_min>>
FromRow(row) == [Time |-> row[1], Current_mA |-> row[2], Voltage_V |-> row[3], Power_W |-> row[4], Energy_kWh |-> row[5], Cost_BDT |-> row[6], Duration_min |-> row[7]]
\* Mutant: the table written holds the newest record only.
DataFrame_LastRow(history) ==
    IF Len(history) = 0 THEN <<>> ELSE <<ToRow(history[Len(history)])>>

DataFrame(history) == [i \in 1..Len(history) |-> ToRow(history[i])]
read_csv(rows) == [i \in 1..Len(rows) |-> FromRow(rows[i])]

----------------------------------------------------------------------------
\* Mutant: the checkpoint file is never read.
InitSessionState_NoCheckpoint(ss, csv, backup, now) ==
    LET d1 == SetDefault(ss, "scheduled_off_time", None)
        d2 == SetDefault(d1, "auto_off_active", FALSE)
        d3 == SetDefault(d2, "on_time", None)
        d4 == SetDefault(d3, "duration_minutes", 0)
        d5 == SetDefault(d4, "history", IF csv # NoFile THEN read_csv(csv[1]) ELSE <<>>)
    IN  IF "last_update_time" \notin DOMAIN d5 \/ "accumulated_kwh" \notin DOMAIN d5
        THEN Put(Put(d5, "accumulated_kwh", 0), "last_update_time", now)
        ELSE d5

\* Mutant: a new session takes its on-duration from the last logged record.
InitSessionState_ResumeWindow(ss, csv, backup, now) ==
    LET logged == IF csv # NoFile THEN read_csv(csv[1]) ELSE <<>>
        d1 == SetDefault(ss, "scheduled_off_time", None)
        d2 == SetDefault(d1, "auto_off_active", FALSE)
        d3 == SetDefault(d2, "on_time", None)
        d4 == SetDefault(d3, "duration_minutes", IF Len(logged) = 0 THEN 0 ELSE logged[Len(logged)].Duration_min)
        d5 == SetDefault(d4, "history", logged)
    IN  IF "last_update_time" \notin DOMAIN d5 \/ "accumulated_kwh" \notin DOMAIN d5
        THEN IF backup # NoFile
             THEN Put(Put(d5, "accumulated_kwh", Get(backup[1], "accumulated_kwh", 0)),
                      "last_update_time", Get(backup[1], "last_update_time", now))
             ELSE Put(Put(d5, "accumulated_kwh", 0), "last_update_time", now)
        ELSE d5

\* Session state init, run at the top of every script execution.
InitSessionState(ss, csv, backup, now) ==
    LET d1 == SetDefault(ss, "scheduled_off_time", None)
        d2 == SetDefault(d1, "auto_off_active", FALSE)
        d3 == SetDefault(d2, "on_time", None)
        d4 == SetDefault(d3, "duration_minutes", 0)
        d5 == SetDefault(d4, "history", IF csv # NoFile THEN read_csv(csv[1]) ELSE <<>>)
    IN  IF "last_update_time" \notin DOMAIN d5 \/ "accumulated_kwh" \notin DOMAIN d5
        THEN IF backup # NoFile
             THEN Put(Put(d5, "accumulated_kwh", Get(backup[1], "accumulated_kwh", 0)),
                      "last_update_time", Get(backup[1], "last_update_time", now))
             ELSE Put(Put(d5, "accumulated_kwh", 0), "last_update_time", now)
        ELSE d5

----------------------------------------------------------------------------
\* Replies of cloud.getstatus: it raises, or returns a response whose
\* "result" list carries some of the property codes (absent ones are None).
Dps(sw, p, v, c) == [switch_1 |-> sw, cur_power |-> p, cur_voltage |-> v, cur_current |-> c]
NoResult == Dps(None, None, None, None)
SampleOn == Dps(Some(TRUE), Some(10000), Some(2200), Some(4545))
SampleOff == Dps(Some(FALSE), Some(0), Some(2200), Some(0))
Raises == [raises |-> TRUE, dps |-> NoResult]
Returns(dps) == [raises |-> FALSE, dps |-> dps]
Replies == {Raises, Returns(SampleOn), Returns(SampleOff)}
\* The replies while the plug is switched off.
QuietReplies == {Raises, Returns(SampleOff)}
DpsGet(opt, default) == IF opt = None THEN default ELSE opt[1]

FailStatus == <<FALSE, 0, 0, 0, 0, 0, 0>>

\* Mutant: the elapsed time is taken with the wrong sign.
EnergyUpdate_Backwards(ss, power, now) ==
    LET delta == ss.last_update_time - now
    IN  Put(Put(ss, "last_update_time", now), "accumulated_kwh", ss.accumulated_kwh + power * delta)

\* accumulated_kwh += (power / 1000.0) * delta_hours, last_update_time = now.
EnergyUpdate(ss, power, now) ==
    LET delta == now - ss.last_update_time
    IN  Put(Put(ss, "last_update_time", now), "accumulated_kwh", ss.accumulated_kwh + power * delta)

\* Mutant: on_time is set on every update that finds the switch on.
DurationUpdate_Restart(ss, power_on, now) ==
    IF power_on
    THEN LET s1 == Put(ss, "on_time", Some(now))
         IN  Put(s1, "duration_minutes", IntDiv(now - s1.on_time[1], SecondsPerMinute))
    ELSE Put(Put(ss, "on_time", None), "duration_minutes", 0)

\* The on-duration tracker.
DurationUpdate(ss, power_on, now) ==
    IF power_on
    THEN LET s1 == IF ss.on_time = None THEN Put(ss, "on_time", Some(now)) ELSE ss
         IN  Put(s1, "duration_minutes", IntDiv(now - s1.on_time[1], SecondsPerMinute))
    ELSE Put(Put(ss, "on_time", None), "duration_minutes", 0)

CacheFresh(entry, now) == now - entry.at < CacheTtl

\* get_device_status behind st.cache_data(ttl=15): a fresh cache entry is
\* returned without running the body.
get_device_status(ss, ch, now, reply) ==
    IF ch # None /\ CacheFresh(ch[1], now)
    THEN [ss |-> ss, cache |-> ch, status |-> ch[1].value, fetch |-> "hit"]
    ELSE IF reply.raises
    THEN [ss |-> ss, cache |-> Some([value |-> FailStatus, at |-> now]), status |-> FailStatus, fetch |-> "raise"]
    ELSE LET power_on == DpsGet(reply.dps.switch_1, FALSE)
             power == DpsGet(reply.dps.cur_power, 0)
             voltage == DpsGet(reply.dps.cur_voltage, 0)
             current == DpsGet(reply.dps.cur_current, 0)
             s1 == EnergyUpdate(ss, power, now)
             cost == s1.accumulated_kwh * unit_cost_bdt
             s2 == DurationUpdate(s1, power_on, now)
             status == <<power_on, power, voltage, current, s2.accumulated_kwh, cost, s2.duration_minutes>>
         IN  [ss |-> s2, cache |-> Some([value |-> status, at |-> now]), status |-> status,
              fetch |-> IF reply.dps = NoResult THEN "noresult" ELSE "ok"]

----------------------------------------------------------------------------
\* update_history_row.  wr is the outcome of the two file writes of an append:
\* "ok", "csv_fail" (to_csv raises) or "json_fail" (the checkpoint write raises).
\* Mutant: a record is appended only after more than the interval.
ShouldLog_Strict(ss, now) == now - ss.last_log_time > LogInterval

ShouldLog(ss, now) == ~(now - ss.last_log_time < LogInterval)

MakeRecord(now, status) ==
    [Time |-> now, Current_mA |-> status[4], Voltage_V |-> status[3], Power_W |-> status[2],
     Energy_kWh |-> status[5], Cost_BDT |-> status[6], Duration_min |-> status[7]]

\* Mutant: the checkpoint stores the time of the log append.
Checkpoint_LogTime(ss) == [accumulated_kwh |-> ss.accumulated_kwh, last_update_time |-> ss.last_log_time]

Checkpoint(ss) == [accumulated_kwh |-> ss.accumulated_kwh, last_update_time |-> ss.last_update_time]

\* Mutant: a new session takes last_log_time from the last record on disk.
update_history_row_FromDisk(ss, csv, backup, ch, now, reply, wr) ==
    LET s1 == IF "last_log_time" \notin DOMAIN ss \/ Len(ss.history) = 0
              THEN Put(ss, "last_log_time",
                       IF Len(ss.history) = 0 THEN now - FirstLogOffset ELSE ss.history[Len(ss.history)].Time)
              ELSE ss
        g == get_device_status(s1, ch, now, reply)
    IN  IF ~ShouldLog(s1, now)
        THEN [ss |-> g.ss, csv |-> csv, backup |-> backup, cache |-> g.cache, status |-> g.status,
              df |-> DataFrame(g.ss.history), fetch |-> g.fetch, appended |-> FALSE, write |-> "none"]
        ELSE LET s2 == Put(g.ss, "last_log_time", now)
                 s3 == Put(s2, "history", Append(s2.history, MakeRecord(now, g.status)))
                 df == DataFrame(s3.history)
             IN  [ss |-> s3,
                  csv |-> IF wr = "csv_fail" THEN csv ELSE Some(df),
                  backup |-> IF wr = "ok" THEN Some(Checkpoint(s3)) ELSE backup,
                  cache |-> g.cache, status |-> g.status, df |-> df, fetch |-> g.fetch,
                  appended |-> TRUE, write |-> wr]

update_history_row(ss, csv, backup, ch, now, reply, wr) ==
    LET s1 == IF "last_log_time" \notin DOMAIN ss \/ Len(ss.history) = 0
              THEN Put(ss, "last_log_time", now - FirstLogOffset)
              ELSE ss
        g == get_device_status(s1, ch, now, reply)
    IN  IF ~ShouldLog(s1, now)
        THEN [ss |-> g.ss, csv |-> csv, backup |-> backup, cache |-> g.cache, status |-> g.status,
              df |-> DataFrame(g.ss.history), fetch |-> g.fetch, appended |-> FALSE, write |-> "none"]
        ELSE LET s2 == Put(g.ss, "last_log_time", now)
                 s3 == Put(s2, "history", Append(s2.history, MakeRecord(now, g.status)))
                 df == DataFrame(s3.history)
             IN  [ss |-> s3,
                  csv |-> IF wr = "csv_fail" THEN csv ELSE Some(df),
                  backup |-> IF wr = "ok" THEN Some(Checkpoint(s3)) ELSE backup,
                  cache |-> g.cache, status |-> g.status, df |-> df, fetch |-> g.fetch,
                  appended |-> TRUE, write |-> wr]

----------------------------------------------------------------------------
\* One execution of the script is threaded through a record r: the session
\* state, the files, the cache, the clock and how the execution ended
\* ("done", "rerun" when st.rerun() unwound it, "error" when an exception
\* escaped).

\* toggle_device: ok says whether device.turn_on()/turn_off() returned.  When
\* it does, the function sleeps, clears the cache and raises the rerun
\* request, which "except Exception" does not catch; when it raises, the
\* error is shown (st.error) and the function returns.
\* Mutant: a failed command restarts the metering interval.
toggle_device_Remeter(r, ok) ==
    IF ok
    THEN [r EXCEPT !.clock = r.clock + ToggleSleep, !.cache = None, !.end = "rerun"]
    ELSE [r EXCEPT !.error_shown = TRUE, !.ss = Put(r.ss, "last_update_time", r.clock)]

toggle_device(r, ok) ==
    IF ok
    THEN [r EXCEPT !.clock = r.clock + ToggleSleep, !.cache = None, !.end = "rerun"]
    ELSE [r EXCEPT !.error_shown = TRUE]

schedule_auto_off(ss, now, hours) ==
    Put(Put(ss, "scheduled_off_time", Some(now + hours * SecondsPerHour)), "auto_off_active", TRUE)

\* The three buttons of the control section.
Buttons(r, button, ok) ==
    IF button \in {"off", "on"} THEN toggle_device(r, ok)
    ELSE IF button = "auto_off"
    THEN [r EXCEPT !.ss = schedule_auto_off(r.ss, r.clock, AutoOffHours), !.scheduled = TRUE]
    ELSE r

\* Mutant: disarming after a failed off-command also drops the deadline.
DeadlineCheck_Clears(r, ok) ==
    IF r.ss.auto_off_active
    THEN LET time_left == r.ss.scheduled_off_time[1] - r.clock
         IN  IF time_left <= 0
             THEN LET t == toggle_device([r EXCEPT !.fired = TRUE], ok)
                  IN  IF t.end = "rerun" THEN t
                      ELSE [t EXCEPT !.ss = Put(Put(t.ss, "auto_off_active", FALSE), "scheduled_off_time", None)]
             ELSE r
    ELSE r

\* Mutant: an armed commitment fires at the next tick, whatever the deadline.
DeadlineCheck_Immediate(r, ok) ==
    IF r.ss.auto_off_active
    THEN LET t == toggle_device([r EXCEPT !.fired = TRUE], ok)
         IN  IF t.end = "rerun" THEN t
             ELSE [t EXCEPT !.ss = Put(t.ss, "auto_off_active", FALSE)]
    ELSE r

\* The auto-off deadline check at the end of the control section.
DeadlineCheck(r, ok) ==
    IF r.ss.auto_off_active
    THEN LET time_left == r.ss.scheduled_off_time[1] - r.clock
         IN  IF time_left <= 0
             THEN LET t == toggle_device([r EXCEPT !.fired = TRUE], ok)
                  IN  IF t.end = "rerun" THEN t
                      ELSE [t EXCEPT !.ss = Put(t.ss, "auto_off_active", FALSE)]
             ELSE r
    ELSE r

\* The script down to the "Load Device Data" section: session state init, the
\* refresh button, update_history_row.
Poll(ss, csv, backup, ch, now, button, reply, wr) ==
    LET s0 == InitSessionState(ss, csv, backup, now)
        r0 == [ss |-> s0, csv |-> csv, backup |-> backup, cache |-> ch, clock |-> now, end |-> "done",
               fetch |-> "none", appended |-> FALSE, write |-> "none", scheduled |-> FALSE, fired |-> FALSE,
               error_shown |-> FALSE]
    IN  IF button = "refresh"
        THEN [r0 EXCEPT !.cache = None, !.end = "rerun"]
        ELSE LET u == update_history_row(s0, csv, backup, ch, now, reply, wr)
                 r1 == [r0 EXCEPT !.ss = u.ss, !.csv = u.csv, !.backup = u.backup, !.cache = u.cache,
                                  !.fetch = u.fetch, !.appended = u.appended, !.write = u.write]
             IN  IF u.write \in {"csv_fail", "json_fail"}
                 THEN [r1 EXCEPT !.end = "error"]
                 ELSE r1

\* The rest of the script, reached unless Poll ended the execution.
Controls(r1, button, ok1, ok2) ==
    IF r1.end # "done" THEN r1
    ELSE LET r2 == Buttons(r1, button, ok1)
         IN  IF r2.end = "rerun" THEN r2 ELSE DeadlineCheck(r2, ok2)

Script(ss, csv, backup, ch, now, button, reply, wr, ok1, ok2) ==
    Controls(Poll(ss, csv, backup, ch, now, button, reply, wr), button, ok1, ok2)

----------------------------------------------------------------------------
\* What a step did.
Event(op, reply, r) ==
    [op |-> op, power |-> DpsGet(reply.dps.cur_power, 0),
     power_on |-> DpsGet(reply.dps.switch_1, FALSE), fetch |-> r.fetch,
     appended |-> r.appended, write |-> r.write, end |-> r.end, scheduled |-> r.scheduled, fired |-> r.fired,
     error_shown |-> r.error_shown]

NoRun == [fetch |-> "none", appended |-> FALSE, write |-> "none", end |-> "done", scheduled |-> FALSE, fired |-> FALSE,
          error_shown |-> FALSE]
NoReply == [raises |-> FALSE, dps |-> NoResult]
EnvEvent(op) == Event(op, NoReply, NoRun)

\* A checkpoint and a one-row history table left by an earlier process.
OldRecord == [Time |-> 0, Current_mA |-> 4545, Voltage_V |-> 2200, Power_W |-> 10000,
              Energy_kWh |-> 5 * UnitsPerKWh, Cost_BDT |-> 5 * UnitsPerKWh * unit_cost_bdt, Duration_min |-> 0]
OldCheckpoint == [accumulated_kwh |-> 5 * UnitsPerKWh, last_update_time |-> 0]

Init ==
    /\ clock = 0
    /\ session_state = EmptyDict
    /\ other_session = EmptyDict
    /\ cache = None
    /\ \/ csv_file = NoFile /\ backup_file = NoFile
       \/ csv_file = Some(DataFrame(<<OldRecord>>)) /\ backup_file = Some(OldCheckpoint)
    /\ rerun_pending = FALSE
    /\ off_issued = 0
    /\ overwritten = FALSE
    /\ clock_steps = 0
    /\ write_faults = 0
    /\ last = EnvEvent("env")

\* The state after a script execution that ended as r.
Finish(r, reply) ==
    /\ r.clock # clock => clock_steps < MaxClockSteps
    /\ r.end = "error" => write_faults < MaxWriteFaults
    /\ Len(r.ss.history) <= MaxHistory
    /\ session_state' = r.ss
    /\ other_session' = other_session
    /\ csv_file' = r.csv
    /\ backup_file' = r.backup
    /\ cache' = r.cache
    /\ clock' = r.clock
    /\ rerun_pending' = (r.end = "rerun")
    /\ off_issued' = (IF r.scheduled THEN 0 ELSE off_issued) + (IF r.fired THEN 1 ELSE 0)
    /\ overwritten' = IF r.scheduled
                      THEN InitSessionState(session_state, csv_file, backup_file, clock).auto_off_active
                      ELSE overwritten
    /\ clock_steps' = IF r.clock # clock THEN clock_steps + 1 ELSE clock_steps
    /\ write_faults' = IF r.end = "error" THEN write_faults + 1 ELSE write_faults
    /\ last' = Event("run", reply, r)

ButtonNames == {"none", "off", "on", "auto_off"}
\* The buttons that do not schedule an auto-off.
MeterButtons == {"none", "off", "on"}

\* A script execution: the page is loaded or rerun ("none"), or one of the
\* three control buttons was clicked.  The device answers with one of replies,
\* the click is one of buttons, the file writes end as one of wrs.  Inputs the
\* execution never looks at are fixed, so that each behaviour is generated
\* once.
RunWith(replies, buttons, wrs) ==
    \E reply \in replies \cup {NoReply}, wr \in wrs :
    \E r1 \in {Poll(session_state, csv_file, backup_file, cache, clock, "none", reply, wr)} :
        /\ (r1.fetch = "hit") = (reply = NoReply)
        /\ ~r1.appended => wr = "ok"
        /\ Len(r1.ss.history) <= MaxHistory
        /\ \E button \in buttons, ok1 \in BOOLEAN, ok2 \in BOOLEAN :
            /\ rerun_pending => button = "none"
            /\ (button \notin {"off", "on"} \/ r1.end # "done") => ~ok1
            /\ r1.end # "done" => button = "none"
            /\ \E r \in {Controls(r1, button, ok1, ok2)} :
                /\ ~r.fired => ~ok2
                /\ Finish(r, reply)

\* A script execution in which every file write succeeds and the auto-off
\* button is not clicked.
ScriptRun == RunWith(Replies, MeterButtons, {"ok"})

\* A script execution in which to_csv or the checkpoint write raises.
FaultyRun == RunWith(Replies, {"none"}, {"csv_fail", "json_fail"})

\* A script execution with no button clicked in which every file write succeeds.
PlainRun == RunWith(Replies, {"none"}, {"ok"})

\* A script execution with any button clicked, the plug switched off.
ControlRun == RunWith(QuietReplies, ButtonNames, {"ok"})

\* A script execution with the plug on or off in which at most the auto-off
\* button is clicked.
SessionRun == RunWith(Replies, {"none", "auto_off"}, {"ok"})

\* The "Refresh Status" button was clicked.
RefreshClick ==
    /\ ~rerun_pending
    /\ Finish(Script(session_state, csv_file, backup_file, cache, clock, "refresh", NoReply, "ok", FALSE, FALSE), NoReply)

\* Time passes between two script executions.
Advance ==
    /\ ~rerun_pending
    /\ clock_steps < MaxClockSteps
    /\ \E d \in Deltas : clock' = clock + d
    /\ clock_steps' = clock_steps + 1
    /\ last' = EnvEvent("env")
    /\ UNCHANGED <<session_state, other_session, cache, csv_file, backup_file, rerun_pending, off_issued, overwritten, write_faults>>

\* The wall clock is stepped back.
ClockSkew ==
    /\ ~rerun_pending
    /\ clock_steps < MaxClockSteps
    /\ \E d \in SkewBack :
        /\ clock - d >= 0
        /\ clock' = clock - d
    /\ clock_steps' = clock_steps + 1
    /\ last' = EnvEvent("env")
    /\ UNCHANGED <<session_state, other_session, cache, csv_file, backup_file, rerun_pending, off_issued, overwritten, write_faults>>

\* The next script execution is for the other browser tab: each tab has its
\* own st.session_state; the cache, the files and the clock are shared.
SwitchTab ==
    /\ ~rerun_pending
    /\ session_state # EmptyDict
    /\ session_state' = other_session
    /\ other_session' = session_state
    /\ last' = EnvEvent("switch")
    /\ UNCHANGED <<clock, cache, csv_file, backup_file, rerun_pending, off_issued, overwritten, clock_steps, write_faults>>

\* The process is restarted: the session states and the cache are gone, the files stay.
Restart ==
    /\ session_state # EmptyDict
    /\ session_state' = EmptyDict
    /\ other_session' = EmptyDict
    /\ cache' = None
    /\ rerun_pending' = FALSE
    /\ off_issued' = 0
    /\ overwritten' = FALSE
    /\ last' = EnvEvent("restart")
    /\ UNCHANGED <<clock, csv_file, backup_file, clock_steps, write_faults>>

\* Metering: everything but the auto-off button and failing file writes.
\* Without a click on the auto-off button auto_off_active stays False and the
\* deadline check at the end of the script is skipped.
Next ==
    \/ ScriptRun
    \/ RefreshClick
    \/ Advance
    \/ ClockSkew
    \/ Restart

Spec == Init /\ [][Next]_vars

\* Metering on a disk whose writes may fail, no button clicked, the clock
\* never stepped back.
NextFaults ==
    \/ PlainRun
    \/ FaultyRun
    \/ Advance
    \/ Restart

SpecFaults == Init /\ [][NextFaults]_vars

\* The auto-off scheduler: every button, the plug switched off.
NextAutoOff ==
    \/ ControlRun
    \/ RefreshClick
    \/ Advance
    \/ ClockSkew
    \/ Restart

SpecAutoOff == Init /\ [][NextAutoOff]_vars

\* Sessions that meter, arm the auto-off and are restarted.
NextRestart ==
    \/ SessionRun
    \/ Advance
    \/ Restart

SpecRestart == Init /\ [][NextRestart]_vars

\* Two browser tabs metering side by side, no button clicked.
NextTabs ==
    \/ PlainRun
    \/ SwitchTab
    \/ Advance

SpecTabs == Init /\ [][NextTabs]_vars

----------------------------------------------------------------------------
\* The claims.

\* The session state a script execution starting now works on, after its
\* session state init.
Loaded == InitSessionState(session_state, csv_file, backup_file, clock)

WriteFailed == last.write \in {"csv_fail", "json_fail"}

\* C1 (as claimed): a tick at or after the deadline of an armed commitment
\* issues the device-off command exactly once in total and leaves
\* auto_off_active False, whether device.turn_off() returns or raises.
C1_FiresOnceAndDisarms ==
    (last.op = "run" /\ last.fired) =>
        (off_issued = 1 /\ session_state.auto_off_active = FALSE)

\* C2: a successful status update with power >= 0 taken at a time not before
\* last_update_time leaves accumulated_kwh at least what it was.
C2_EnergyNonDecreasing ==
    [][(last'.op = "run" /\ last'.fetch = "ok" /\ last'.power >= 0
            /\ clock >= Loaded.last_update_time)
        => session_state'.accumulated_kwh >= Loaded.accumulated_kwh]_vars

\* C2 witness: a fresh session metered one minute at 1000 W.
C2_Witness ==
    /\ last.op = "run" /\ last.fetch = "ok" /\ last.power = 10000
    /\ session_state.accumulated_kwh = 10000 * 60

\* C3 (as claimed): an update taken with now < last_update_time leaves
\* accumulated_kwh exactly unchanged.
C3_SkewLeavesEnergy ==
    [][(last'.op = "run" /\ last'.fetch = "ok" /\ clock < Loaded.last_update_time)
        => session_state'.accumulated_kwh = Loaded.accumulated_kwh]_vars

\* C4: the first update of a restarted process that finds a checkpoint {E, T},
\* taken at time T + d with power P, yields E + P * d (in model units:
\* E + (P/1000) * (d/3600) kWh).
C4_ResumeFromCheckpoint ==
    [][(last'.op = "run" /\ last'.fetch = "ok" /\ session_state = EmptyDict /\ backup_file # NoFile)
        => session_state'.accumulated_kwh =
               backup_file[1].accumulated_kwh + last'.power * (clock - backup_file[1].last_update_time)]_vars

\* C4 witness: checkpoint {5.0 kWh, T = 0}, one update at T + 3600 s with
\* 1000 W, 6.0 kWh; the record of that tick is the only one the session added.
C4_Witness ==
    /\ last.op = "run" /\ last.fetch = "ok" /\ last.power = 10000
    /\ clock = 3600
    /\ session_state.accumulated_kwh = 6 * UnitsPerKWh
    /\ Len(session_state.history) = 2
    /\ session_state.history[1] = OldRecord
    /\ session_state.history[2].Time = 3600
    /\ session_state.history[2].Energy_kWh = 6 * UnitsPerKWh

\* C5 (as claimed): after every energy update, whether or not the tick
\* appends a history record, the checkpoint file holds the in-memory
\* accumulated_kwh and last_update_time.
C5_CheckpointAfterEveryUpdate ==
    (last.op = "run" /\ last.fetch = "ok") =>
        /\ backup_file # NoFile
        /\ backup_file[1].accumulated_kwh = session_state.accumulated_kwh
        /\ backup_file[1].last_update_time = session_state.last_update_time

\* C6: the first tick of a session appends one record; after that a tick less
\* than 60 s after last_log_time leaves the history as it is, and a tick at
\* least 60 s after it appends exactly one record, stamped with the time of
\* the tick.
C6_LogCadence ==
    [][(last'.op = "run" /\ last'.fetch # "none")
        => LET old == Loaded.history
               new == session_state'.history
           IN  IF "last_log_time" \in DOMAIN session_state /\ clock - session_state.last_log_time < 60
               THEN ~last'.appended /\ new = old
               ELSE /\ last'.appended
                    /\ Len(new) = Len(old) + 1
                    /\ SubSeq(new, 1, Len(old)) = old
                    /\ new[Len(new)].Time = clock
                    /\ session_state'.last_log_time = clock]_vars

\* C6 witness: two ticks of a session 60 s apart, two records.
C6_Witness ==
    /\ last.op = "run" /\ last.appended
    /\ Len(session_state.history) = 2
    /\ session_state.history[1].Time = 0
    /\ session_state.history[1] # OldRecord
    /\ session_state.history[2].Time = 60

\* C7 (as claimed): after a schedule call that replaces an armed commitment
\* there is one deadline, the time of that call plus the duration, and only
\* one off-command is ever issued.
C7_OverwriteOneCommand ==
    overwritten =>
        /\ last.scheduled =>
               /\ session_state.auto_off_active
               /\ session_state.scheduled_off_time = Some(clock + AutoOffHours * SecondsPerHour)
        /\ off_issued <= 1

\* The on-duration tracker as a two-state machine; div(e) is the minutes
\* reported for e elapsed seconds.
TrackerStep(old, new, on, now, div(_)) ==
    IF on
    THEN /\ new.on_time = IF old.on_time = None THEN Some(now) ELSE old.on_time
         /\ new.duration_minutes = div(now - new.on_time[1])
    ELSE /\ new.on_time = None
         /\ new.duration_minutes = 0

Floor60(e) == e \div 60
Trunc60(e) == IF e >= 0 THEN e \div 60 ELSE -((-e) \div 60)

\* C8 (as claimed): every update while ON reports floor((now - on_time)/60).
C8_DurationFloor ==
    [][(last'.op = "run" /\ last'.fetch = "ok")
        => TrackerStep(Loaded, session_state', last'.power_on, clock, Floor60)]_vars

\* C8 (amended): every update while ON reports (now - on_time)/60 truncated
\* toward zero, which is the floor whenever now >= on_time.
C8_DurationTruncated ==
    [][(last'.op = "run" /\ last'.fetch = "ok")
        => TrackerStep(Loaded, session_state', last'.power_on, clock, Trunc60)]_vars

\* C8 witness: on at t0 = 0, on again 120 s later, 2 minutes reported.
C8_Witness ==
    /\ last.op = "run" /\ last.fetch = "ok" /\ last.power_on
    /\ session_state.on_time = Some(0)
    /\ session_state.last_update_time = 120
    /\ session_state.duration_minutes = 2

\* C9 (as claimed): a tick whose status fetch raises moves last_update_time
\* to the time of that tick.
C9_FailedFetchAdvances ==
    [][(last'.op = "run" /\ last'.fetch = "raise")
        => session_state'.last_update_time = clock]_vars

\* C10 (as claimed): a tick whose history or checkpoint write raises still
\* runs to its end.
C10_WriteFailureCompletesTick ==
    (last.op = "run" /\ WriteFailed) => last.end = "done"

\* The reply of cloud.getstatus that the step recorded as e received.
RepliedWith(e) ==
    IF e.fetch = "raise" THEN Raises
    ELSE IF e.fetch = "ok" THEN Returns(IF e.power_on THEN SampleOn ELSE SampleOff)
    ELSE NoReply

\* The script execution recorded in last', as it stood when update_history_row
\* had returned and no control had acted yet.
Polled == Poll(session_state, csv_file, backup_file, cache, clock, "none", RepliedWith(last'), "ok")

\* C11: a device command that raises leaves accumulated_kwh, last_update_time,
\* the in-memory history, the history file and the checkpoint file as they
\* were when the command was issued.
C11_FailedCommandFrame ==
    [][(last'.op = "run" /\ last'.error_shown)
        => /\ session_state'.accumulated_kwh = Polled.ss.accumulated_kwh
           /\ session_state'.last_update_time = Polled.ss.last_update_time
           /\ session_state'.history = Polled.ss.history
           /\ csv_file' = Polled.csv
           /\ backup_file' = Polled.backup]_vars

\* C11 witness: a minute of 1000 W metered and checkpointed, then a tick whose
\* status fetch raises and whose device command raises too.
C11_Witness ==
    /\ last.op = "run" /\ last.error_shown /\ last.fetch = "raise"
    /\ clock = 90
    /\ session_state.accumulated_kwh = 10000 * 60
    /\ session_state.last_update_time = 60
    /\ Len(session_state.history) = 2
    /\ backup_file = Some([accumulated_kwh |-> 10000 * 60, last_update_time |-> 60])

\* C12: when a tick appends a record and writes the checkpoint, and the
\* process restarts before any further update, the accumulated_kwh and
\* last_update_time loaded at startup are the in-memory values that were
\* persisted.
C12_CheckpointRoundTrip ==
    [][(last.op = "run" /\ last.appended /\ last.write = "ok" /\ last'.op = "restart")
        => LET reloaded == InitSessionState(session_state', csv_file', backup_file', clock')
           IN  /\ reloaded.accumulated_kwh = session_state.accumulated_kwh
               /\ reloaded.last_update_time = session_state.last_update_time]_vars

\* C12 witness: a restart right after the tick at t = 60 that checkpointed
\* 60 s at 1000 W.
C12_Witness ==
    /\ last.op = "restart"
    /\ clock = 60
    /\ backup_file = Some([accumulated_kwh |-> 10000 * 60, last_update_time |-> 60])
    /\ Loaded.accumulated_kwh = 10000 * 60
    /\ Loaded.last_update_time = 60
    /\ Len(Loaded.history) = 2
    /\ Loaded.history[2].Time = 60

\* C13: the session state a restarted process starts from has no on-window
\* (on_time None, duration 0) and no auto-off commitment (no deadline,
\* auto_off_active False), whatever they were before the restart; its
\* accumulated_kwh is the one of the checkpoint file and its history is the
\* history file, which holds every record of the session that ended.
C13_RestartResets ==
    [][last'.op = "restart"
        => LET reloaded == InitSessionState(session_state', csv_file', backup_file', clock')
           IN  /\ reloaded.on_time = None
               /\ reloaded.duration_minutes = 0
               /\ reloaded.scheduled_off_time = None
               /\ reloaded.auto_off_active = FALSE
               /\ backup_file # NoFile
               /\ reloaded.accumulated_kwh = backup_file[1].accumulated_kwh
               /\ reloaded.history = session_state.history]_vars

\* C13 witness: a session that was on for a minute (its last record says so),
\* restarted at t = 60.
C13_Witness ==
    /\ last.op = "restart"
    /\ clock = 60
    /\ Loaded.on_time = None
    /\ Loaded.duration_minutes = 0
    /\ Loaded.auto_off_active = FALSE
    /\ Loaded.accumulated_kwh = 10000 * 60
    /\ Len(Loaded.history) = 2
    /\ Loaded.history[2].Duration_min = 1
    /\ Loaded.history[2].Power_W = 10000

\* C14: a tick that finds the commitment armed and the deadline still ahead
\* issues no off-command and leaves the deadline and auto_off_active as they
\* are; a tick that finds no commitment armed, or arms one, issues none either.
C14_NoEarlyOff ==
    [][last'.op = "run"
        => /\ (~last'.scheduled /\ Loaded.auto_off_active /\ clock < Loaded.scheduled_off_time[1])
                => /\ ~last'.fired
                   /\ session_state'.auto_off_active
                   /\ session_state'.scheduled_off_time = Loaded.scheduled_off_time
           /\ (~last'.scheduled /\ ~Loaded.auto_off_active) => ~last'.fired
           /\ last'.scheduled => ~last'.fired]_vars

\* C14 witness: armed at t = 0 for t = 3600, a tick at t = 60.
C14_Witness ==
    /\ last.op = "run" /\ ~last.scheduled /\ ~last.fired /\ last.fetch # "none"
    /\ clock = 60
    /\ session_state.auto_off_active
    /\ session_state.scheduled_off_time = Some(3600)
    /\ off_issued = 0

\* C15: the first tick of a process (no last_log_time in the session state)
\* appends a record stamped with its own time, however recent the last record
\* of the history loaded from disk is.
C15_FirstTickLogs ==
    [][(last'.op = "run" /\ last'.fetch # "none" /\ "last_log_time" \notin DOMAIN session_state)
        => /\ last'.appended
           /\ Len(session_state'.history) = Len(Loaded.history) + 1
           /\ session_state'.history[Len(session_state'.history)].Time = clock
           /\ csv_file' = Some(DataFrame(session_state'.history))]_vars

\* C15 witness: the history on disk ends with a record written at t = 0, the
\* process starts and ticks at t = 30.
C15_Witness ==
    /\ last.op = "run" /\ last.appended
    /\ clock = 30
    /\ Len(session_state.history) = 2
    /\ session_state.history[1] = OldRecord
    /\ session_state.history[2].Time = 30
    /\ session_state.last_log_time = 30

\* C16: within a session every tick keeps the records the history holds, in
\* their order, and adds at most one record, at the end; after a tick that
\* appends and whose writes succeed the history file holds the in-memory
\* sequence.
C16_AppendOnly ==
    [][last'.op = "run"
        => LET old == Loaded.history
               new == session_state'.history
           IN  /\ Len(new) = Len(old) + (IF last'.appended THEN 1 ELSE 0)
               /\ SubSeq(new, 1, Len(old)) = old
               /\ (last'.appended /\ last'.write = "ok")
                    => /\ csv_file' # NoFile
                       /\ read_csv(csv_file'[1]) = new]_vars

\* C16 witness: a write of the first tick failed, the tick a minute later
\* appends the second record and writes both.
C16_Witness ==
    /\ last.op = "run" /\ last.appended /\ last.write = "ok"
    /\ write_faults = 1
    /\ Len(session_state.history) = 2
    /\ session_state.history[1] # OldRecord
    /\ session_state.history[1].Time = 0
    /\ session_state.history[2].Time = 60
    /\ csv_file # NoFile
    /\ Len(csv_file[1]) = 2
    /\ read_csv(csv_file[1]) = session_state.history

\* The records a session holds in memory.
RecordsOf(ss) ==
    IF "history" \in DOMAIN ss THEN {ss.history[i] : i \in 1..Len(ss.history)} ELSE {}

\* The history file holds the record rec.
Stored(csv, rec) == csv # NoFile /\ \E i \in 1..Len(csv[1]) : csv[1][i] = ToRow(rec)

\* C17 (as claimed): however the ticks of two sessions interleave, the history
\* file holds every record either session appended, and the accumulated_kwh
\* of the checkpoint file never decreases.
C17_NoLostRecord ==
    [][/\ \A rec \in RecordsOf(session_state') \cup RecordsOf(other_session') : Stored(csv_file', rec)
       /\ (backup_file # NoFile /\ backup_file' # NoFile)
            => backup_file'[1].accumulated_kwh >= backup_file[1].accumulated_kwh]_vars

\* C18 (as claimed): every record appended carries as Energy_kWh the
\* in-memory accumulated_kwh of that moment, also when the status fetch of
\* the tick failed.
C18_RecordCarriesEnergy ==
    (last.op = "run" /\ last.appended) =>
        session_state.history[Len(session_state.history)].Energy_kWh = session_state.accumulated_kwh

\* C19 (as claimed): in every state auto_off_active is true exactly when a
\* deadline is stored in scheduled_off_time.
C19_ActiveIffDeadline ==
    "auto_off_active" \in DOMAIN session_state =>
        (session_state.auto_off_active <=> session_state.scheduled_off_time # None)

\* C19 (amended): in every state auto_off_active true implies that a deadline
\* is stored; a firing whose off-command raises sets auto_off_active False
\* and leaves the passed deadline stored.
C19_ActiveImpliesDeadline ==
    "auto_off_active" \in DOMAIN session_state =>
        /\ session_state.auto_off_active => session_state.scheduled_off_time # None
        /\ (last.op = "run" /\ last.fired /\ last.end = "done")
             => /\ ~session_state.auto_off_active
                /\ session_state.scheduled_off_time # None
                /\ session_state.scheduled_off_time[1] <= clock

\* C19 witness: armed at t = 0, the off-command of the tick at t = 3600 raised.
C19_Witness ==
    /\ last.op = "run" /\ last.fired /\ last.end = "done" /\ last.error_shown
    /\ clock = 3600
    /\ ~session_state.auto_off_active
    /\ session_state.scheduled_off_time = Some(3600)
    /\ off_issued = 1

====
